---- MODULE Spec2Model ----
(***************************************************************************)
(* Model of src/bot.py: the resume-driven interview server.                *)
(*                                                                         *)
(* State: the process-wide SESSIONS dictionary, the files of the upload    *)
(* folder, and the last request/response pair together with the external   *)
(* collaborators the handler invoked (file save, PDF extraction, LLM       *)
(* chains, file removal).  Under Spec each route handler is one action:     *)
(* requests are handled one at a time, each handler running to completion. *)
(* SpecLive adds the fairness of a client that keeps answering; SpecConc    *)
(* lets POST /answer requests of several threads overlap.                  *)
(*                                                                         *)
(* chat_history is a Python string built from the f-string pieces          *)
(* "Q{n}: {text}\n" and "A{n}: {text}\n"; it is modelled as the sequence   *)
(* of those pieces, each a record [tag, num, text].                        *)
(***************************************************************************)
EXTENDS Integers, Sequences, FiniteSets, TLC

\* ---------------------------------------------------------------- bounds
MaxSessions == 2      \* session ids uuid4 can return
MaxFiles    == 2      \* upload file names uuid4().hex can return
MaxFail     == 1      \* generation failures inside process_answer
MaxLive     == 1      \* interviews started in the fair specification
MaxThreads  == 2      \* request threads of the overlapping specification
MaxRequests == 2      \* POST /answer requests of the overlapping specification

\* ------------------------------------------------------- program constants
LastQuestion == 5     \* the literal of "if current_q < 5"

\* --------------------------------------------------------- input domains
Ids        == 1..MaxSessions
NoId       == 0                      \* a session_id form field nobody issued
FilePaths  == 1..MaxFiles
Resumes    == {"r1", "r2"}               \* texts PyPDFLoader can extract
Questions  == {"q"}                  \* texts the question chains can return
Answers    == {"a"}                  \* 'answer' form field (not validated)
Filenames  == {"", "cv.pdf"}         \* file.filename

\* ------------------------------------------------------------------ state
VARIABLES
    SESSIONS,     \* session_id -> [resume_text, chat_history, question_num, filepath]
    disk,         \* files present in UPLOAD_FOLDER
    usedIds,      \* session ids uuid4 has already returned
    usedFiles,    \* file names uuid4 has already returned
    req,          \* the request handled last
    resp,         \* the response returned last
    calls,        \* external collaborators invoked by the last handler
    submitted,    \* per id: process_answer calls that found the session
    succeeded,    \* per id: process_answer calls that returned a page
    returned,     \* per id: question_num values rendered to the client
    fails,        \* generation failures inside process_answer so far
    thr,          \* overlapping requests: each thread's position and locals
    detached      \* session dictionaries popped while a thread still holds them

vars == <<SESSIONS, disk, usedIds, usedFiles, req, resp, calls,
          submitted, succeeded, returned, fails, thr, detached>>

Threads == 1..MaxThreads

\* -------------------------------------------------------- requests, pages
NoReq == [op |-> "none", hasField |-> FALSE, filename |-> "",
          session_id |-> NoId, answer |-> ""]

IndexReq == [NoReq EXCEPT !.op = "index"]

UploadReq(hasField, filename) ==
    [NoReq EXCEPT !.op = "upload", !.hasField = hasField, !.filename = filename]

AnswerReq(session_id, answer) ==
    [NoReq EXCEPT !.op = "answer", !.session_id = session_id, !.answer = answer]

\* render_template('index.html', state=..., ...)
Page(state, question_num, session_id) ==
    [status |-> 200, state |-> state, error |-> "",
     question_num |-> question_num, session_id |-> session_id]

\* jsonify({"error": msg}), code
JsonError(msg, code) ==
    [status |-> code, state |-> "error", error |-> msg,
     question_num |-> 0, session_id |-> NoId]

\* an exception that leaves process_answer: Flask answers 500
Unhandled == JsonError("Internal Server Error", 500)

\* ------------------------------------------------------- handler helpers
\* if 'resume' not in request.files
NoFileUploaded(hasField) == ~hasField

\* variant: the empty-filename check never fires
EmptyFilename_Never(filename) == FALSE

\* if file.filename == ''
EmptyFilename(filename) == filename = ""

\* f"Q{n}: {text}\n"
QuestionEntry(n, text) == [tag |-> "Q", num |-> n, text |-> text]

\* f"A{current_q}: {answer}\n"
AnswerEntry(current_q, answer) == [tag |-> "A", num |-> current_q, text |-> answer]

\* variant: the counter starts at 0
NewSession_FromZero(resume_text, first_question, filepath) ==
    [resume_text  |-> resume_text,
     chat_history |-> <<QuestionEntry(1, first_question)>>,
     question_num |-> 0,
     filepath     |-> filepath]

\* the dictionary stored by upload_resume
NewSession(resume_text, first_question, filepath) ==
    [resume_text  |-> resume_text,
     chat_history |-> <<QuestionEntry(1, first_question)>>,
     question_num |-> 1,
     filepath     |-> filepath]

\* variant: the session is stored before the first question is generated
UploadTry_StoreFirst(S, session_id, resume_text, first_question, filepath, extractOK, genOK) ==
    IF extractOK
    THEN [k \in DOMAIN S \cup {session_id} |->
            IF k = session_id THEN [resume_text  |-> resume_text,
                                    chat_history |-> << >>,
                                    question_num |-> 1,
                                    filepath     |-> filepath]
            ELSE S[k]]
    ELSE S

\* variant: the session is stored under a constant key, not the fresh uuid
UploadTry_FixedKey(S, session_id, resume_text, first_question, filepath, extractOK, genOK) ==
    IF extractOK /\ genOK
    THEN [k \in DOMAIN S \cup {1} |->
            IF k = 1
            THEN NewSession(resume_text, first_question, filepath)
            ELSE S[k]]
    ELSE S

\* the try block of upload_resume: the store it leaves behind
UploadTry(S, session_id, resume_text, first_question, filepath, extractOK, genOK) ==
    IF extractOK /\ genOK
    THEN [k \in DOMAIN S \cup {session_id} |->
            IF k = session_id
            THEN NewSession(resume_text, first_question, filepath)
            ELSE S[k]]
    ELSE S

\* variant: the lookup always misses (the id is compared with the wrong type)
SessionKnown_Never(S, session_id) == FALSE

\* if session_id not in SESSIONS  (negated)
SessionKnown(S, session_id) == session_id \in DOMAIN S

\* variant: the interview ends one question early
HasMoreQuestions_Early(current_q) == current_q < LastQuestion - 1

\* variant: off by one, a sixth question is asked
HasMoreQuestions_Late(current_q) == current_q <= LastQuestion

\* if current_q < 5
HasMoreQuestions(current_q) == current_q < LastQuestion

\* variant: the counter skips a number
NextQuestionNum_Skip(current_q) == current_q + 2

\* current_q += 1
NextQuestionNum(current_q) == current_q + 1

\* variant: the history is assigned (=) where the code appends (+=)
WithAnswer_Overwrite(session, answer) ==
    [session EXCEPT !.chat_history = <<AnswerEntry(session.question_num, answer)>>]

\* variant: the answer is written into the wrong key of the session
WithAnswer_ClobberResume(session, answer) ==
    [session EXCEPT !.resume_text = answer,
                    !.chat_history =
                        Append(@, AnswerEntry(session.question_num, answer))]

\* session["chat_history"] += f"A{current_q}: {answer}\n"
WithAnswer(session, answer) ==
    [session EXCEPT !.chat_history =
        Append(@, AnswerEntry(session.question_num, answer))]

\* variant: the question is tagged with the number of the answered question
WithQuestion_OldTag(session, current_q, next_q) ==
    [session EXCEPT !.question_num = current_q,
                    !.chat_history = Append(@, [tag |-> "Q", num |-> current_q - 1,
                                                text |-> next_q])]

\* variant: the incremented counter is not stored back
WithQuestion_NoCounter(session, current_q, next_q) ==
    [session EXCEPT !.chat_history = Append(@, QuestionEntry(current_q, next_q))]

\* session["question_num"] = current_q ; session["chat_history"] += f"Q{current_q}: {next_q}\n"
WithQuestion(session, current_q, next_q) ==
    [session EXCEPT !.question_num = current_q,
                    !.chat_history = Append(@, QuestionEntry(current_q, next_q))]

\* variant: the finished session is never popped
PopSession_Keep(S, session_id) == S

\* SESSIONS.pop(session_id, None)
PopSession(S, session_id) == [k \in DOMAIN S \ {session_id} |-> S[k]]

\* variant: the cleanup removes nothing
RemoveFile_Skip(files, filepath, delOK) == files

\* if os.path.exists(filepath): try: os.remove(filepath) except: pass
RemoveFile(files, filepath, delOK) ==
    IF filepath \in files /\ delOK THEN files \ {filepath} ELSE files

\* variant: the appended answer is rolled back when the chain raises
AnswerKnown_Rollback(S, session_id, answer, genOK, next_q) ==
    LET session   == WithAnswer(S[session_id], answer)
        current_q == S[session_id].question_num
    IN  IF HasMoreQuestions(current_q)
        THEN IF genOK
             THEN [S EXCEPT ![session_id] =
                      WithQuestion(session, NextQuestionNum(current_q), next_q)]
             ELSE S
        ELSE IF genOK
             THEN PopSession([S EXCEPT ![session_id] = session], session_id)
             ELSE S

\* which of the cleanup calls ran: os.remove returned, or raised and was swallowed
RemoveCalls(files, filepath, delOK) ==
    IF filepath \in files
    THEN (IF delOK THEN {"remove"} ELSE {"remove_raised"})
    ELSE {}

\* process_answer on a stored session: the store it leaves behind
AnswerKnown(S, session_id, answer, genOK, next_q) ==
    LET session   == WithAnswer(S[session_id], answer)
        current_q == S[session_id].question_num
    IN  IF HasMoreQuestions(current_q)
        THEN IF genOK
             THEN [S EXCEPT ![session_id] =
                      WithQuestion(session, NextQuestionNum(current_q), next_q)]
             ELSE [S EXCEPT ![session_id] = session]
        ELSE IF genOK
             THEN PopSession([S EXCEPT ![session_id] = session], session_id)
             ELSE [S EXCEPT ![session_id] = session]

\* variant: an unknown id gets an entry (setdefault instead of a membership test)
SessionsAfterAnswer_Create(S, session_id, answer, genOK, next_q) ==
    IF ~SessionKnown(S, session_id)
    THEN [k \in DOMAIN S \cup {session_id} |->
            IF k = session_id
            THEN [resume_text  |-> "",
                  chat_history |-> <<AnswerEntry(1, answer)>>,
                  question_num |-> 1,
                  filepath     |-> 0]
            ELSE S[k]]
    ELSE AnswerKnown(S, session_id, answer, genOK, next_q)

\* process_answer: the store it leaves behind
SessionsAfterAnswer(S, session_id, answer, genOK, next_q) ==
    IF ~SessionKnown(S, session_id)
    THEN S
    ELSE AnswerKnown(S, session_id, answer, genOK, next_q)

\* uuid.uuid4(): a value never returned before (the least one, up to renaming)
Fresh(all, used) == CHOOSE x \in all \ used : \A y \in all \ used : x <= y

\* the locals of a request thread inside process_answer
IdleThread == [pc |-> "idle", session_id |-> NoId, answer |-> "",
               current_q |-> 0, hist |-> << >>, next_q |-> ""]

\* ------------------------------------------------------------------ Init
Init ==
    /\ SESSIONS  = << >>
    /\ disk      = {}
    /\ usedIds   = {}
    /\ usedFiles = {}
    /\ req       = NoReq
    /\ resp      = Page("none", 0, NoId)
    /\ calls     = {}
    /\ submitted = [i \in Ids |-> 0]
    /\ succeeded = [i \in Ids |-> 0]
    /\ returned  = [i \in Ids |-> << >>]
    /\ fails     = 0
    /\ thr       = [t \in Threads |-> IdleThread]
    /\ detached  = << >>

\* --------------------------------------------------------------- actions
\* GET /
index ==
    /\ req'   = IndexReq
    /\ resp'  = Page("start", 0, NoId)
    /\ calls' = {}
    /\ UNCHANGED <<SESSIONS, disk, usedIds, usedFiles,
                   submitted, succeeded, returned, fails, thr, detached>>

\* POST /upload
upload_resume(hasField, filename, filepath, extractOK, resume_text, genOK, first_question, session_id) ==
    /\ req' = UploadReq(hasField, filename)
    /\ IF NoFileUploaded(hasField)
       THEN /\ resp'  = JsonError("No file uploaded", 400)
            /\ calls' = {}
            /\ UNCHANGED <<SESSIONS, disk, usedIds, usedFiles, returned>>
       ELSE IF EmptyFilename(filename)
       THEN /\ resp'  = JsonError("Empty file selected", 400)
            /\ calls' = {}
            /\ UNCHANGED <<SESSIONS, disk, usedIds, usedFiles, returned>>
       ELSE /\ usedFiles' = usedFiles \cup {filepath}
            /\ disk'      = disk \cup {filepath}
            /\ SESSIONS'  = UploadTry(SESSIONS, session_id, resume_text,
                                      first_question, filepath, extractOK, genOK)
            /\ IF ~extractOK
               THEN /\ resp'  = JsonError("extraction failed", 500)
                    /\ calls' = {"save", "extract"}
                    /\ UNCHANGED <<usedIds, returned>>
               ELSE IF ~genOK
               THEN /\ resp'  = JsonError("generation failed", 500)
                    /\ calls' = {"save", "extract", "first_question_chain"}
                    /\ UNCHANGED <<usedIds, returned>>
               ELSE /\ resp'     = Page("question", 1, session_id)
                    /\ calls'    = {"save", "extract", "first_question_chain"}
                    /\ usedIds'  = usedIds \cup {session_id}
                    /\ returned' = [returned EXCEPT ![session_id] = <<1>>]
    /\ UNCHANGED <<submitted, succeeded, fails, thr, detached>>

\* POST /answer
process_answer(session_id, answer, genOK, text, delOK) ==
    /\ req' = AnswerReq(session_id, answer)
    /\ SESSIONS' = SessionsAfterAnswer(SESSIONS, session_id, answer, genOK, text)
    /\ IF ~SessionKnown(SESSIONS, session_id)
       THEN /\ resp'  = JsonError("Session expired", 400)
            /\ calls' = {}
            /\ UNCHANGED <<disk, submitted, succeeded, returned, fails>>
       ELSE LET current_q == SESSIONS[session_id].question_num
            IN  /\ submitted' = [submitted EXCEPT ![session_id] = @ + 1]
                /\ IF HasMoreQuestions(current_q)
                   THEN /\ calls' = {"next_question_chain"}
                        /\ UNCHANGED disk
                        /\ IF genOK
                           THEN /\ resp' = Page("question",
                                                NextQuestionNum(current_q), session_id)
                                /\ returned'  = [returned EXCEPT ![session_id] =
                                                   Append(@, NextQuestionNum(current_q))]
                                /\ succeeded' = [succeeded EXCEPT ![session_id] = @ + 1]
                                /\ UNCHANGED fails
                           ELSE /\ resp'  = Unhandled
                                /\ fails' = fails + 1
                                /\ UNCHANGED <<returned, succeeded>>
                   ELSE IF genOK
                        THEN /\ resp'  = Page("assessment", 0, NoId)
                             /\ calls' = {"assessment_chain"} \cup
                                    RemoveCalls(disk, SESSIONS[session_id].filepath, delOK)
                             /\ disk'  = RemoveFile(disk, SESSIONS[session_id].filepath, delOK)
                             /\ succeeded' = [succeeded EXCEPT ![session_id] = @ + 1]
                             /\ UNCHANGED <<returned, fails>>
                        ELSE /\ resp'  = Unhandled
                             /\ calls' = {"assessment_chain"}
                             /\ fails' = fails + 1
                             /\ UNCHANGED <<disk, returned, succeeded>>
    /\ UNCHANGED <<usedIds, usedFiles, thr, detached>>

Upload ==
    /\ FilePaths \ usedFiles # {}
    /\ Ids \ usedIds # {}
    /\ \E hasField \in BOOLEAN, filename \in Filenames,
          extractOK \in BOOLEAN, resume_text \in Resumes,
          genOK \in BOOLEAN, first_question \in Questions :
           upload_resume(hasField, filename, Fresh(FilePaths, usedFiles),
                         extractOK, resume_text, genOK, first_question,
                         Fresh(Ids, usedIds))

Answer ==
    \E session_id \in Ids \cup {NoId}, answer \in Answers,
       genOK \in BOOLEAN, text \in Questions, delOK \in BOOLEAN :
        /\ (~genOK => fails < MaxFail)
        /\ process_answer(session_id, answer, genOK, text, delOK)

Next == index \/ Upload \/ Answer

Spec == Init /\ [][Next]_vars

\* POST /answer requests for one session id
AnswerFor(s) ==
    \E answer \in Answers, genOK \in BOOLEAN, text \in Questions, delOK \in BOOLEAN :
        /\ (~genOK => fails < MaxFail)
        /\ process_answer(s, answer, genOK, text, delOK)

\* the client of every session keeps submitting; each request handed to the
\* server is handled to completion; the chains fail at most MaxFail times
LiveUpload == Cardinality(usedIds) < MaxLive /\ Upload

NextLive == index \/ LiveUpload \/ Answer

SpecLive == Init /\ [][NextLive]_vars /\ \A s \in Ids : WF_vars(AnswerFor(s))

UpTo(n) == [i \in 1..n |-> i]

\* ------------------------------------------- overlapping POST /answer
\* The threaded server runs handlers of different requests in parallel; a
\* thread can be preempted between any two reads or writes of the shared
\* session dictionary.  process_answer is split at those points.

\* the dictionary a thread got from SESSIONS[session_id]; it stays usable
\* after another thread popped it from the store
Obj(S, D, session_id) == IF session_id \in DOMAIN S THEN S[session_id] ELSE D[session_id]

\* variant: the counter is incremented in place (session["question_num"] += 1)
CounterWriteBack_InPlace(stored, read) == stored + 1

\* current_q += 1 ; session["question_num"] = current_q : the value written
\* comes from the local read earlier, not from the stored counter
CounterWriteBack(stored, read) == NextQuestionNum(read)

SeqNoSubmit == UNCHANGED <<usedIds, usedFiles, req, resp, calls, succeeded, returned>>

SeqUnchanged == SeqNoSubmit /\ UNCHANGED submitted

\* a write to the dictionary the thread holds
SetObj(session_id, rec) ==
    IF session_id \in DOMAIN SESSIONS
    THEN SESSIONS' = [SESSIONS EXCEPT ![session_id] = rec] /\ UNCHANGED detached
    ELSE detached' = [detached EXCEPT ![session_id] = rec] /\ UNCHANGED SESSIONS

\* answer = request.form.get('answer') ; session_id = request.form.get('session_id')
Receive(t, session_id, answer) ==
    /\ thr[t].pc = "idle"
    /\ thr' = [thr EXCEPT ![t] = [IdleThread EXCEPT !.pc = "check",
                                   !.session_id = session_id, !.answer = answer]]
    /\ UNCHANGED <<SESSIONS, detached, disk, fails>> /\ SeqUnchanged

\* if session_id not in SESSIONS: return ... ; session = SESSIONS[session_id] ;
\* current_q = session["question_num"]
Check(t) ==
    /\ thr[t].pc = "check"
    /\ IF ~SessionKnown(SESSIONS, thr[t].session_id)
       THEN thr' = [thr EXCEPT ![t] = IdleThread] /\ UNCHANGED submitted
       ELSE /\ submitted[thr[t].session_id] - succeeded[thr[t].session_id] < MaxRequests
            /\ submitted' = [submitted EXCEPT ![thr[t].session_id] = @ + 1]
            /\ thr' = [thr EXCEPT ![t].pc = "load_a",
                          ![t].current_q = SESSIONS[thr[t].session_id].question_num]
    /\ UNCHANGED <<SESSIONS, detached, disk, fails>> /\ SeqNoSubmit

\* session["chat_history"] += ... : the read of the old string
LoadAnswerHist(t) ==
    /\ thr[t].pc = "load_a"
    /\ thr' = [thr EXCEPT ![t].pc = "store_a",
                 ![t].hist = Obj(SESSIONS, detached, thr[t].session_id).chat_history]
    /\ UNCHANGED <<SESSIONS, detached, disk, fails>> /\ SeqUnchanged

\* session["chat_history"] += f"A{current_q}: {answer}\n" : the write ; if current_q < 5
StoreAnswer(t) ==
    /\ thr[t].pc = "store_a"
    /\ SetObj(thr[t].session_id,
              [Obj(SESSIONS, detached, thr[t].session_id) EXCEPT !.chat_history =
                   Append(thr[t].hist, AnswerEntry(thr[t].current_q, thr[t].answer))])
    /\ thr' = [thr EXCEPT ![t].pc = IF HasMoreQuestions(thr[t].current_q)
                                     THEN "gen" ELSE "assess",
                          ![t].hist = << >>]
    /\ UNCHANGED <<disk, fails>> /\ SeqUnchanged

\* next_q = next_question_chain.run(...)
Generate(t, genOK, text) ==
    /\ thr[t].pc = "gen"
    /\ IF genOK
       THEN thr' = [thr EXCEPT ![t].pc = "store_num", ![t].next_q = text] /\ UNCHANGED fails
       ELSE /\ fails < MaxFail
            /\ fails' = fails + 1
            /\ thr' = [thr EXCEPT ![t] = IdleThread]
    /\ UNCHANGED <<SESSIONS, detached, disk>> /\ SeqUnchanged

\* current_q += 1 ; session["question_num"] = current_q
StoreNum(t) ==
    /\ thr[t].pc = "store_num"
    /\ LET o == Obj(SESSIONS, detached, thr[t].session_id)
           n == CounterWriteBack(o.question_num, thr[t].current_q)
       IN  /\ SetObj(thr[t].session_id, [o EXCEPT !.question_num = n])
           /\ thr' = [thr EXCEPT ![t].pc = "load_q", ![t].current_q = n]
    /\ UNCHANGED <<disk, fails>> /\ SeqUnchanged

\* session["chat_history"] += ... : the read of the old string
LoadQuestionHist(t) ==
    /\ thr[t].pc = "load_q"
    /\ thr' = [thr EXCEPT ![t].pc = "store_q",
                 ![t].hist = Obj(SESSIONS, detached, thr[t].session_id).chat_history]
    /\ UNCHANGED <<SESSIONS, detached, disk, fails>> /\ SeqUnchanged

\* session["chat_history"] += f"Q{current_q}: {next_q}\n" : the write ; return the page
StoreQuestion(t) ==
    /\ thr[t].pc = "store_q"
    /\ SetObj(thr[t].session_id,
              [Obj(SESSIONS, detached, thr[t].session_id) EXCEPT !.chat_history =
                   Append(thr[t].hist, QuestionEntry(thr[t].current_q, thr[t].next_q))])
    /\ thr' = [thr EXCEPT ![t] = IdleThread]
    /\ UNCHANGED <<disk, fails>> /\ SeqUnchanged

\* assessment = assessment_chain.run(...)
Assess(t, genOK) ==
    /\ thr[t].pc = "assess"
    /\ IF genOK
       THEN thr' = [thr EXCEPT ![t].pc = "cleanup"] /\ UNCHANGED fails
       ELSE /\ fails < MaxFail
            /\ fails' = fails + 1
            /\ thr' = [thr EXCEPT ![t] = IdleThread]
    /\ UNCHANGED <<SESSIONS, detached, disk>> /\ SeqUnchanged

\* if os.path.exists(session["filepath"]): try: os.remove(...) except: pass
Cleanup(t, delOK) ==
    /\ thr[t].pc = "cleanup"
    /\ disk' = RemoveFile(disk, Obj(SESSIONS, detached, thr[t].session_id).filepath, delOK)
    /\ thr' = [thr EXCEPT ![t].pc = "pop"]
    /\ UNCHANGED <<SESSIONS, detached, fails>> /\ SeqUnchanged

\* SESSIONS.pop(session_id, None) ; return the assessment page
Pop(t) ==
    /\ thr[t].pc = "pop"
    /\ SESSIONS' = PopSession(SESSIONS, thr[t].session_id)
    /\ detached' =
         IF /\ thr[t].session_id \in DOMAIN SESSIONS
            /\ \E u \in Threads \ {t} :
                  /\ thr[u].session_id = thr[t].session_id
                  /\ thr[u].pc \notin {"idle", "check"}
         THEN [k \in DOMAIN detached \cup {thr[t].session_id} |->
                 IF k = thr[t].session_id THEN SESSIONS[k] ELSE detached[k]]
         ELSE detached
    /\ thr' = [thr EXCEPT ![t] = IdleThread]
    /\ UNCHANGED <<disk, fails>> /\ SeqUnchanged

Step(t) ==
    \/ \E session_id \in Ids \cup {NoId}, answer \in Answers : Receive(t, session_id, answer)
    \/ Check(t)
    \/ LoadAnswerHist(t)
    \/ StoreAnswer(t)
    \/ \E genOK \in BOOLEAN, text \in Questions : Generate(t, genOK, text)
    \/ StoreNum(t)
    \/ LoadQuestionHist(t)
    \/ StoreQuestion(t)
    \/ \E genOK \in BOOLEAN : Assess(t, genOK)
    \/ \E delOK \in BOOLEAN : Cleanup(t, delOK)
    \/ Pop(t)

NextConc == \E t \in Threads : Step(t)

\* the history after n - 1 answers handled one at a time: Q1, A1, ..., Q(n)
RECURSIVE SeqHistory(_)
SeqHistory(n) ==
    IF n = 1
    THEN <<QuestionEntry(1, "q")>>
    ELSE SeqHistory(n - 1) \o <<AnswerEntry(n - 1, "a"), QuestionEntry(n, "q")>>

\* the overlap starts on an interview that POST /upload created and that
\* n - 1 successful answers, handled one at a time, brought to question n
InitConc ==
    \E n \in 1..LastQuestion, r \in Resumes :
        /\ SESSIONS  = (1 :> [resume_text  |-> r,
                              chat_history |-> SeqHistory(n),
                              question_num |-> n,
                              filepath     |-> 1])
        /\ disk      = {1}
        /\ usedIds   = {1}
        /\ usedFiles = {1}
        /\ req       = NoReq
        /\ resp      = Page("none", 0, NoId)
        /\ calls     = {}
        /\ submitted = [i \in Ids |-> IF i = 1 THEN n - 1 ELSE 0]
        /\ succeeded = [i \in Ids |-> IF i = 1 THEN n - 1 ELSE 0]
        /\ returned  = [i \in Ids |-> IF i = 1 THEN UpTo(n) ELSE << >>]
        /\ fails     = 0
        /\ thr       = [t \in Threads |-> IdleThread]
        /\ detached  = << >>

SpecConc == InitConc /\ [][NextConc]_vars

\* ------------------------------------------------- reading a chat_history
IsQ(e) == e.tag = "Q"
IsA(e) == e.tag = "A"
QEntries(h) == SelectSeq(h, IsQ)
AEntries(h) == SelectSeq(h, IsA)

\* Q1, A1, Q2, A2, ... : entry i is a Q for odd i, an A for even i, numbered (i+1) div 2
Alternates(h) ==
    \A i \in 1..Len(h) :
        /\ h[i].tag = (IF i % 2 = 1 THEN "Q" ELSE "A")
        /\ h[i].num = (i + 1) \div 2


\* ----------------------------------------------------------------- claims

\* C1: when POST /upload succeeds, the session_id it returns is a key of
\* SESSIONS whose session has question_num = 1 and a chat_history that is
\* exactly the entry Q1; a POST /answer issued next with that id does not get
\* 'Session expired'.
C1_UploadedSessionRetrievable ==
    /\ [](req.op = "upload" /\ resp.status = 200 =>
            /\ resp.session_id \in DOMAIN SESSIONS
            /\ SESSIONS[resp.session_id].question_num = 1
            /\ Len(SESSIONS[resp.session_id].chat_history) = 1
            /\ SESSIONS[resp.session_id].chat_history[1].tag = "Q"
            /\ SESSIONS[resp.session_id].chat_history[1].num = 1)
    /\ [][(/\ req.op = "upload" /\ resp.status = 200
           /\ req'.op = "answer" /\ req'.session_id = resp.session_id)
          => resp'.error # "Session expired"]_vars

C1_Witness ==
    /\ req.op = "upload" /\ resp.status = 200 /\ resp.state = "question"
    /\ resp.session_id \in DOMAIN SESSIONS

\* C2: the question_num values rendered for one session are 1,2,3,... with no
\* gap and no repetition, and are exactly 1,2,3,4,5 once the assessment has
\* been returned.
C2_QuestionNumSequence ==
    \A s \in usedIds :
        /\ Len(returned[s]) \in 1..5
        /\ returned[s] = UpTo(Len(returned[s]))
        /\ (s \in DOMAIN SESSIONS =>
                returned[s][Len(returned[s])] = SESSIONS[s].question_num)
        /\ (s \notin DOMAIN SESSIONS => returned[s] = <<1, 2, 3, 4, 5>>)

C2_Witness ==
    \E s \in usedIds :
        /\ s \notin DOMAIN SESSIONS
        /\ returned[s] = <<1, 2, 3, 4, 5>>
        /\ resp.state = "assessment"

\* C3 as stated: after exactly 5 POST /answer calls on a created session the
\* session is no longer in the store.
C3_Original ==
    \A s \in usedIds : submitted[s] = 5 => s \notin DOMAIN SESSIONS

\* C3 amended: a created session is in the store exactly until 5 POST /answer
\* calls on it have succeeded (calls that fail in generation do not count);
\* from then on a POST /answer with its id gets 'Session expired'.
C3_GoneAfterFiveSuccesses ==
    /\ [](\A s \in usedIds :
            /\ succeeded[s] <= 5
            /\ (succeeded[s] = 5 <=> s \notin DOMAIN SESSIONS))
    /\ [][\A s \in usedIds :
            (succeeded[s] = 5 /\ req'.op = "answer" /\ req'.session_id = s)
            => resp' = JsonError("Session expired", 400)]_vars

C3_Witness ==
    \E s \in usedIds :
        /\ succeeded[s] = 5 /\ submitted[s] > 5
        /\ req.op = "answer" /\ req.session_id = s
        /\ resp.error = "Session expired"

\* C4 as stated: after N answers have been submitted, a stored session's
\* chat_history has exactly N Q entries and exactly N A entries, strictly
\* alternating from Q1.
C4_Original ==
    \A s \in DOMAIN SESSIONS :
        LET h == SESSIONS[s].chat_history
        IN  /\ Len(QEntries(h)) = submitted[s]
            /\ Len(AEntries(h)) = submitted[s]
            /\ Alternates(h)

\* C4 amended: after N answers have been submitted to a stored session, S of
\* them with a successful generation, its chat_history starts with Q1, has
\* exactly N A entries and exactly S+1 Q entries, numbered Q1..Q(S+1) in
\* order, each Q(k+1) placed directly after an A(k); when S = N (no
\* submission failed) that is N+1 Q entries and the entries alternate
\* strictly.
C4_HistoryCounts ==
    \A s \in DOMAIN SESSIONS :
        LET h == SESSIONS[s].chat_history
            q == QEntries(h)
        IN  /\ Len(AEntries(h)) = submitted[s]
            /\ Len(q) = succeeded[s] + 1
            /\ \A i \in 1..Len(q) : q[i].num = i
            /\ h[1].tag = "Q"
            /\ \A i \in 2..Len(h) :
                  h[i].tag = "Q" => h[i-1].tag = "A" /\ h[i-1].num = h[i].num - 1
            /\ (submitted[s] = succeeded[s] => Alternates(h))

C4_Witness ==
    \E s \in DOMAIN SESSIONS :
        /\ submitted[s] = 3 /\ succeeded[s] = 2
        /\ Len(SESSIONS[s].chat_history) = 6

\* C5: a POST /answer whose session_id is not a key of SESSIONS returns
\* 'Session expired' and changes nothing: the store and the upload folder are
\* as before and no chain is run.
C5_UnknownSessionRejected ==
    [][(req'.op = "answer" /\ req'.session_id \notin DOMAIN SESSIONS) =>
          /\ resp' = JsonError("Session expired", 400)
          /\ SESSIONS' = SESSIONS
          /\ disk' = disk
          /\ calls' = {}]_vars

C5_Witness ==
    /\ req.op = "answer" /\ resp.error = "Session expired"
    /\ req.session_id \notin DOMAIN SESSIONS
    /\ SESSIONS # << >>

\* C6: a POST /upload without the 'resume' field, or with an empty filename,
\* returns its named error and does nothing else: no file is saved, no
\* extraction or generation runs, no session is created.
C6_RejectedUploadDoesNothing ==
    [][(req'.op = "upload" /\ (~req'.hasField \/ req'.filename = "")) =>
          /\ resp' = (IF ~req'.hasField
                      THEN JsonError("No file uploaded", 400)
                      ELSE JsonError("Empty file selected", 400))
          /\ calls' = {}
          /\ disk' = disk /\ usedFiles' = usedFiles
          /\ SESSIONS' = SESSIONS]_vars

C6_Witness ==
    /\ req.op = "upload" /\ req.hasField /\ req.filename = ""
    /\ resp.error = "Empty file selected" /\ resp.status = 400

\* C7: a POST /upload that fails in extraction or in first-question
\* generation leaves the store exactly as it was.
C7_FailedUploadKeepsStore ==
    [][(req'.op = "upload" /\ resp'.status = 500) => SESSIONS' = SESSIONS]_vars

C7_Witness ==
    /\ req.op = "upload" /\ resp.status = 500
    /\ calls = {"save", "extract", "first_question_chain"}
    /\ SESSIONS # << >>

\* C8: a session leaves the store only in the POST /answer step for its own
\* id that finds question_num = 5 and returns the assessment, and a removed
\* session never comes back (so it is never removed twice).
C8_RemovedOnceAtAssessment ==
    [][/\ \A s \in DOMAIN SESSIONS :
            s \notin DOMAIN SESSIONS' =>
                /\ SESSIONS[s].question_num = 5
                /\ req'.op = "answer" /\ req'.session_id = s
                /\ resp'.state = "assessment"
       /\ \A s \in usedIds \ DOMAIN SESSIONS : s \notin DOMAIN SESSIONS']_vars

C8_Witness ==
    \E s \in usedIds \ DOMAIN SESSIONS :
        /\ req.op = "answer" /\ req.session_id = s
        /\ resp.state = "assessment"

\* C9: a stored session's question_num is always in 1..5 and no step lowers
\* it.
C9_QuestionNumBounded ==
    /\ [](\A s \in DOMAIN SESSIONS : SESSIONS[s].question_num \in 1..5)
    /\ [][\A s \in DOMAIN SESSIONS \cap DOMAIN SESSIONS' :
            SESSIONS'[s].question_num >= SESSIONS[s].question_num]_vars

C9_Witness ==
    \E s \in DOMAIN SESSIONS :
        /\ SESSIONS[s].question_num = 5
        /\ req.op = "answer" /\ req.session_id = s

\* C10: every stored chat_history alternates strictly Q1, A1, Q2, A2, ...
\* (an A(k) only directly after Q(k), a Q(k+1) only directly after A(k)).
C10_StrictAlternation ==
    \A s \in DOMAIN SESSIONS : Alternates(SESSIONS[s].chat_history)

\* s is a prefix of t
IsPrefix(s, t) == Len(s) <= Len(t) /\ \A i \in 1..Len(s) : s[i] = t[i]

\* C11: chat_history is append-only: over every step that keeps a session in
\* the store, its history before the step is a prefix of its history after.
C11_HistoryAppendOnly ==
    [][\A s \in DOMAIN SESSIONS \cap DOMAIN SESSIONS' :
          IsPrefix(SESSIONS[s].chat_history, SESSIONS'[s].chat_history)]_vars

C11_Witness ==
    \E s \in DOMAIN SESSIONS :
        /\ Len(SESSIONS[s].chat_history) >= 6
        /\ submitted[s] > succeeded[s]
        /\ req.op = "answer" /\ req.session_id = s

\* C12: resume_text and the file reference of a stored session are never
\* changed by a step that keeps the session in the store, and the file
\* reference is a name that POST /upload generated.
C12_ResumeAndFileFixed ==
    /\ [](\A s \in DOMAIN SESSIONS :
            /\ SESSIONS[s].resume_text \in Resumes
            /\ SESSIONS[s].filepath \in usedFiles)
    /\ [][\A s \in DOMAIN SESSIONS \cap DOMAIN SESSIONS' :
            /\ SESSIONS'[s].resume_text = SESSIONS[s].resume_text
            /\ SESSIONS'[s].filepath = SESSIONS[s].filepath]_vars

C12_Witness ==
    \E s \in DOMAIN SESSIONS :
        /\ SESSIONS[s].resume_text = "r2"
        /\ SESSIONS[s].question_num = 4
        /\ req.op = "answer" /\ req.session_id = s

\* C13: when the chain called by POST /answer raises, the response is the
\* propagated error and the stored session differs from before only by the
\* appended entry A(question_num): question_num is unchanged, no question is
\* appended, the session stays in the store and the upload folder is as
\* before.
C13_FailedGenerationKeepsAnswer ==
    [][(req'.op = "answer" /\ fails' = fails + 1) =>
          LET s == req'.session_id
          IN  /\ s \in DOMAIN SESSIONS
              /\ resp' = Unhandled
              /\ SESSIONS' = [SESSIONS EXCEPT ![s].chat_history =
                                Append(@, AnswerEntry(SESSIONS[s].question_num,
                                                      req'.answer))]
              /\ disk' = disk]_vars

C13_Witness ==
    /\ req.op = "answer" /\ resp = Unhandled /\ fails = 1
    /\ req.session_id \in DOMAIN SESSIONS
    /\ calls = {"assessment_chain"}
    /\ SESSIONS[req.session_id].question_num = 5
    /\ Len(SESSIONS[req.session_id].chat_history) = 10

\* C15: the POST /answer step that finds question_num = 5 and gets the
\* assessment removes the session and returns the assessment whether os.remove
\* returns or raises; when it returns, the session's file is gone from the
\* upload folder, and when it raises the folder is as before.
C15_TerminalStepCleanup ==
    [][(req'.op = "answer" /\ "assessment_chain" \in calls' /\ fails' = fails) =>
          LET s == req'.session_id
          IN  /\ s \in DOMAIN SESSIONS
              /\ SESSIONS[s].question_num = 5
              /\ s \notin DOMAIN SESSIONS'
              /\ resp' = Page("assessment", 0, NoId)
              /\ ("remove" \in calls' => SESSIONS[s].filepath \notin disk')
              /\ ("remove_raised" \in calls' => disk' = disk)]_vars

C15_Witness ==
    /\ req.op = "answer" /\ resp.state = "assessment"
    /\ "remove_raised" \in calls
    /\ req.session_id \in usedIds \ DOMAIN SESSIONS
    /\ disk # {}

\* C16: a POST /upload that fails in extraction or in first-question
\* generation leaves no file behind: the upload folder is as it was before
\* the call.
C16_FailedUploadLeavesNoFile ==
    [][(req'.op = "upload" /\ resp'.status = 500) => disk' = disk]_vars

\* C17: the assessment is returned only by a POST /answer on a session whose
\* question_num is 5 and whose history holds Q1..Q5, a next question only on a
\* session whose question_num is below 5, and no stored history has a question
\* entry numbered above 5.
C17_AssessmentOnlyAfterFive ==
    /\ [](\A s \in DOMAIN SESSIONS :
            \A i \in 1..Len(SESSIONS[s].chat_history) :
                SESSIONS[s].chat_history[i].tag = "Q" =>
                    SESSIONS[s].chat_history[i].num \in 1..5)
    /\ [][/\ (req'.op = "answer" /\ resp'.state = "assessment") =>
               /\ req'.session_id \in DOMAIN SESSIONS
               /\ SESSIONS[req'.session_id].question_num = 5
               /\ \A n \in 1..5 :
                     \E i \in 1..Len(SESSIONS[req'.session_id].chat_history) :
                         /\ SESSIONS[req'.session_id].chat_history[i].tag = "Q"
                         /\ SESSIONS[req'.session_id].chat_history[i].num = n
          /\ (req'.op = "answer" /\ resp'.state = "question") =>
               /\ req'.session_id \in DOMAIN SESSIONS
               /\ SESSIONS[req'.session_id].question_num < 5
               /\ resp'.question_num <= 5]_vars

C17_Witness ==
    /\ req.op = "answer" /\ resp.state = "assessment"
    /\ succeeded[req.session_id] = 5
    /\ returned[req.session_id] = <<1, 2, 3, 4, 5>>

\* C19: a request leaves every stored session other than the one it names
\* exactly as it was and in the store, with its file still in the upload
\* folder; POST /upload names no stored session (the id it stores under is
\* not yet a key), and no two stored sessions share a file.
C19_SessionsIsolated ==
    /\ [](\A s, k \in DOMAIN SESSIONS :
            s # k => SESSIONS[s].filepath # SESSIONS[k].filepath)
    /\ [][/\ \A k \in DOMAIN SESSIONS :
               \/ (req'.op = "answer" /\ req'.session_id = k)
               \/ /\ k \in DOMAIN SESSIONS'
                  /\ SESSIONS'[k] = SESSIONS[k]
                  /\ (SESSIONS[k].filepath \in disk => SESSIONS[k].filepath \in disk')
          /\ (req'.op = "upload" /\ resp'.status = 200) =>
               /\ resp'.session_id \notin DOMAIN SESSIONS
               /\ DOMAIN SESSIONS' = DOMAIN SESSIONS \cup {resp'.session_id}]_vars

C19_Witness ==
    \E s, k \in DOMAIN SESSIONS :
        /\ s # k
        /\ req.op = "answer" /\ req.session_id = s
        /\ SESSIONS[s].question_num = 3
        /\ SESSIONS[k].question_num = 1
        /\ usedIds = {s, k}

\* C20: with requests handled one at a time, every stored session's
\* question_num equals the number of question entries of its chat_history and
\* the last question entry is tagged Q(question_num), also after POST /answer
\* steps whose generation failed.
C20_CounterMatchesQuestions ==
    \A s \in DOMAIN SESSIONS :
        LET q == QEntries(SESSIONS[s].chat_history)
        IN  /\ Len(q) = SESSIONS[s].question_num
            /\ q[Len(q)].num = SESSIONS[s].question_num

C20_Witness ==
    \E s \in DOMAIN SESSIONS :
        /\ req.op = "answer" /\ req.session_id = s /\ resp = Unhandled
        /\ SESSIONS[s].question_num = 3
        /\ Len(SESSIONS[s].chat_history) = 6

\* C18: when the client of a session keeps submitting answers and generation
\* fails only finitely often, the session is eventually removed from the
\* store; and a stored session leaves the store by no step other than a
\* POST /answer for its own id, so it stays for as long as none is submitted.
C18_SessionEventuallyRemoved ==
    /\ \A s \in Ids : (s \in DOMAIN SESSIONS) ~> (s \notin DOMAIN SESSIONS)
    /\ [][\A s \in DOMAIN SESSIONS :
            (~(req'.op = "answer" /\ req'.session_id = s)) =>
                (s \in DOMAIN SESSIONS' /\ SESSIONS'[s] = SESSIONS[s])]_vars

C18_Witness ==
    \E s \in usedIds \ DOMAIN SESSIONS :
        /\ submitted[s] = 6 /\ succeeded[s] = 5
        /\ req.op = "answer" /\ req.session_id = s
        /\ resp.state = "assessment"

\* the entries of h tagged A(k)
AnswersTagged(h, k) == {i \in 1..Len(h) : h[i].tag = "A" /\ h[i].num = k}

\* C14: overlapping POST /answer requests for one session are not serialised:
\* the counter a request writes back is the value it read at its start plus 1,
\* whatever the stored counter is by then; so two requests that both read k
\* leave two entries A(k) in the history and the counter at k + 1.
C14_CounterWrittenFromStaleRead ==
    [][\A t \in Threads :
          (thr[t].pc = "store_num" /\ thr'[t].pc = "load_q") =>
              /\ Obj(SESSIONS', detached', thr[t].session_id).question_num
                    = thr[t].current_q + 1
              /\ thr'[t].current_q = thr[t].current_q + 1]_vars

C14_Witness ==
    \E t, u \in Threads :
        /\ t # u
        /\ thr[t].session_id = thr[u].session_id
        /\ thr[t].session_id \in DOMAIN SESSIONS
        /\ thr[t].pc = "store_q" /\ thr[u].pc = "store_q"
        /\ thr[t].current_q = thr[u].current_q
        /\ LET s == thr[t].session_id
               k == thr[t].current_q - 1
           IN  /\ succeeded[s] = k - 1
               /\ submitted[s] = succeeded[s] + 2
               /\ SESSIONS[s].question_num = k + 1
               /\ Cardinality(AnswersTagged(SESSIONS[s].chat_history, k)) = 2

====
